---- MODULE Spec2Model ----
(***************************************************************************)
(* Kosan (boarding house) back end: tenancy ledger and billing ledger.     *)
(*                                                                         *)
(* The relational store is the state: rooms, tenant profiles, room         *)
(* assignments, payments, and the current date.  Every request handler is  *)
(* a sequence of store queries; Step executes the next query block of one  *)
(* request against the store.  Spec runs every handler to completion as    *)
(* one action (requests served one after the other); SpecConc lets two     *)
(* requests interleave query by query (autocommit, no transaction).        *)
(* ever_paid is a history variable: the stored payments that have had      *)
(* status 'paid' at some time.                                             *)
(***************************************************************************)
EXTENDS Integers, Sequences, FiniteSets, TLC

\* ---------------------------------------------------------------- bounds
NumRooms == 2
NumTenants == 2
MaxDay == 2
MaxAsgRows == 2
MaxAsgId == 3
MaxPayId == 2
MaxPayIdConc == 4
MaxComplaints == 1
MaxUsers == 3
NumWorkers == 2

Rooms == 1..NumRooms
Tenants == 1..NumTenants
Days == 1..MaxDay
Workers == 1..NumWorkers

\* None stands for Python's None / SQL NULL in date and key columns.
None == 0
\* monthly_rent values a request may carry
Rents == {5}
\* lease_end_date values a request with move-in day mi may carry: none, or the
\* day before the move-in
LeaseEnds(mi) == {None} \cup ({mi - 1} \cap Days)
\* move_in_date / move_out_date values a change_room request may carry
MoveIns == {None, 1}
MoveOuts == {None, 1}
\* billing periods a request may name, and the admins who send requests
Months == {1, 2}
Years == {2025}
\* mark_as_paid requests: the admin who sends it, and the payment_date,
\* payment_method, payment_reference and notes of the body (None / "" when the
\* body has none)
MarkBodies == {<<"admin1", None, "", "", "">>, <<"admin2", 1, "cash", "ref", "note">>}
\* amount, status and payment_date values a create_payment body may carry
Amounts == {0, 5}
Statuses == {"pending", "paid"}
PaymentDates == {None, MaxDay}
\* status ("" when the body has none) and payment_date values an
\* update_payment body may carry
UpdateBodies == {<<"", None>>, <<"pending", None>>, <<"paid", None>>, <<"paid", 1>>,
                 <<"cancelled", None>>}
\* due_day values a generate_monthly_payments body may carry
DueDays == {31}

VARIABLES rooms, tenants, asg, pay, today, req, last, ever_paid, complaints, users

vars == <<rooms, tenants, asg, pay, today, req, last, ever_paid, complaints, users>>

\* ------------------------------------------------------- identifiers
\* Width of the zero padded number of an identifier ("ASN-{n:03d}").
IdWidth == 3

RECURSIVE Digits(_)
Digits(n) == IF n < 10 THEN <<n>> ELSE Append(Digits(n \div 10), n % 10)

RECURSIVE ZeroPad(_)
ZeroPad(s) == IF Len(s) < IdWidth THEN ZeroPad(<<0>> \o s) ELSE s

\* f"ASN-{n:03d}": the digit string after the constant prefix.
FormatId(n) == ZeroPad(Digits(n))

RECURSIVE ParseId(_)
\* int(id.split('-')[1])
ParseId(s) == IF Len(s) = 0 THEN 0
              ELSE 10 * ParseId(SubSeq(s, 1, Len(s) - 1)) + s[Len(s)]

\* String order of two identifiers (the order the store sorts the id column by).
StrLess(a, b) ==
    \/ \E i \in 1..Len(a) :
          /\ i <= Len(b)
          /\ \A j \in 1..(i - 1) : a[j] = b[j]
          /\ a[i] < b[i]
    \/ /\ Len(a) < Len(b)
       /\ \A j \in 1..Len(a) : a[j] = b[j]

\* objects.order_by('-id').first() over the ids of a table
LastId(ids) == CHOOSE i \in ids : \A j \in ids \ {i} : StrLess(FormatId(j), FormatId(i))

NextId(ids) == IF ids = {} THEN 1 ELSE ParseId(FormatId(LastId(ids))) + 1

generate_assignment_id(table) == NextId(DOMAIN table)

generate_payment_id(table) == NextId(DOMAIN table)

\* ------------------------------------------------------------ the store
DB == [rooms |-> rooms, tenants |-> tenants, asg |-> asg, pay |-> pay, today |-> today,
       complaints |-> complaints, users |-> users]

SetDB(d) ==
    /\ rooms' = d.rooms
    /\ tenants' = d.tenants
    /\ asg' = d.asg
    /\ pay' = d.pay
    /\ today' = d.today
    /\ complaints' = d.complaints
    /\ users' = d.users
    /\ ever_paid' = (ever_paid \cap DOMAIN d.pay) \cup {p \in DOMAIN d.pay : d.pay[p].status = "paid"}

\* RoomAssignment.objects.filter(room=r, is_current=True)
CurrentOfRoom(table, r) == {i \in DOMAIN table : table[i].room = r /\ table[i].is_current}

\* RoomAssignment.objects.filter(tenant=t, is_current=True)
CurrentOfTenant(table, t) == {i \in DOMAIN table : table[i].tenant = t /\ table[i].is_current}

\* TenantProfile.get_current_assignment: first current row in Meta ordering
\* (-move_in_date); None when the tenant has no current row.
get_current_assignment(table, t) ==
    LET cur == CurrentOfTenant(table, t)
        newest == {i \in cur : \A j \in cur : table[j].move_in_date <= table[i].move_in_date}
    IN  IF cur = {} THEN None ELSE CHOOSE i \in newest : \A j \in newest : i <= j

\* Model.save() of a Room instance whose status was just assigned: UPDATE the
\* row, INSERT it when the UPDATE matched none.
SaveRoom(d, r, st) == [d EXCEPT !.rooms[r] = [exists |-> TRUE, status |-> st]]

\* ------------------------------------------------------------- requests
\* A request: the role of the caller, its body (the tenant pk of the URL,
\* room, dates, rent, ...), and the locals of the handler (cur/obj: the row the
\* view loaded, newid: the id of the instance being created, queue: the
\* assignments generate_monthly_payments still has to visit).
Blank ==
    [op |-> "idle", pc |-> "view", res |-> "", admin |-> FALSE, actor |-> "",
     tenant |-> None, room |-> None, move_in_date |-> None, lease_end_date |-> None,
     move_out_date |-> None, monthly_rent |-> None, raw_date |-> FALSE,
     pk |-> None, month |-> None, year |-> None, due_day |-> None, amount |-> None,
     status |-> "", payment_date |-> None, payment_method |-> "", notes |-> "",
     payment_reference |-> "", desc |-> FALSE,
     cur |-> None, obj |-> <<>>, newid |-> None, queue |-> <<>>,
     created |-> 0, skipped |-> 0, calendar |-> FALSE,
     due_date |-> None, errors |-> 0, has_notes |-> FALSE,
     role |-> "", has_is_active |-> FALSE, is_active |-> FALSE,
     now |-> <<>>, stats |-> <<>>, dry_run |-> FALSE]

NewReq(op, admin, t, r, mi, le, mo, rent) ==
    [Blank EXCEPT !.op = op, !.admin = admin, !.tenant = t, !.room = r,
                  !.move_in_date = mi, !.lease_end_date = le, !.move_out_date = mo,
                  !.monthly_rent = rent]

Idle == [op |-> "idle"]

Reply(d, l, res) == [db |-> d, l |-> [l EXCEPT !.pc = "done", !.res = res]]
Goto(d, l, pc) == [db |-> d, l |-> [l EXCEPT !.pc = pc]]

\* (variant: validate() without the check of the room's status)
CreateSerializerValid_NoStatus(d, l) ==
    /\ d.rooms[l.room].exists
    /\ l.move_in_date # None
    /\ CurrentOfRoom(d.asg, l.room) = {}
    /\ CurrentOfTenant(d.asg, l.tenant) = {}
    /\ ~(l.lease_end_date # None /\ l.lease_end_date < l.move_in_date)

\* RoomAssignmentCreateSerializer.is_valid(): field lookups, then validate()
CreateSerializerValid(d, l) ==
    /\ d.rooms[l.room].exists
    /\ l.move_in_date # None
    /\ CurrentOfRoom(d.asg, l.room) = {}
    /\ CurrentOfTenant(d.asg, l.tenant) = {}
    /\ ~(l.lease_end_date # None /\ l.lease_end_date < l.move_in_date)
    /\ d.rooms[l.room].status = "available"

\* RoomAssignment.clean() of an instance with primary key pk
CleanAssignment(table, pk, row) ==
    /\ row.is_current =>
         /\ CurrentOfRoom(table, row.room) \ {pk} = {}
         /\ CurrentOfTenant(table, row.tenant) \ {pk} = {}
    /\ ~(row.move_out_date # None /\ row.move_out_date < row.move_in_date)
    /\ ~(row.lease_end_date # None /\ row.lease_end_date < row.move_in_date)

NewRow(l) ==
    [tenant |-> l.tenant, room |-> l.room, move_in_date |-> l.move_in_date,
     lease_end_date |-> l.lease_end_date, move_out_date |-> None,
     is_current |-> TRUE, monthly_rent |-> l.monthly_rent]

\* assign_room, up to serializer.is_valid()
AssignView(d, l) ==
    IF ~l.admin THEN Reply(d, l, "forbidden")
    ELSE IF ~d.tenants[l.tenant].is_active THEN Reply(d, l, "rejected")
    ELSE IF ~CreateSerializerValid(d, l) THEN Reply(d, l, "rejected")
    ELSE Goto(d, l, "init")

\* RoomAssignment(**validated_data): the id default is evaluated
CreateInit(d, l) ==
    [db |-> d, l |-> [l EXCEPT !.pc = "clean", !.newid = generate_assignment_id(d.asg)]]

\* RoomAssignment.save(): clean(); an exception is not caught by the view
CreateClean(d, l) ==
    IF CleanAssignment(d.asg, l.newid, NewRow(l)) THEN Goto(d, l, "insert")
    ELSE Reply(d, l, "error")

\* RoomAssignment.save(): INSERT (primary key and foreign key are checked)
CreateInsert(d, l) ==
    IF l.newid \in DOMAIN d.asg \/ ~d.rooms[l.room].exists THEN Reply(d, l, "error")
    ELSE Goto([d EXCEPT !.asg = (l.newid :> NewRow(l)) @@ d.asg], l, "occupy")

\* RoomAssignmentCreateSerializer.create: room.status = 'occupied'; room.save()
CreateOccupy(d, l) == Reply(SaveRoom(d, l.room, "occupied"), l, "ok")

\* The view loads the tenant's current assignment.
Load(l, table, cur, mo, raw) ==
    [l EXCEPT !.pc = "end", !.cur = cur, !.obj = table[cur], !.move_out_date = mo,
              !.raw_date = raw]

\* unassign_room, up to the call of end_assignment
UnassignView(d, l) ==
    LET cur == get_current_assignment(d.asg, l.tenant) IN
    IF ~l.admin THEN Reply(d, l, "forbidden")
    ELSE IF cur = None THEN Reply(d, l, "rejected")
    ELSE IF l.move_out_date # None /\ l.move_out_date > d.today THEN Reply(d, l, "rejected")
    ELSE [db |-> d,
          l |-> Load(l, d.asg, cur,
                     IF l.move_out_date = None THEN d.today ELSE l.move_out_date, FALSE)]

\* change_room, up to the call of end_assignment; a move_out_date of the
\* request body is handed on as the raw string.
ChangeView(d, l) ==
    LET cur == get_current_assignment(d.asg, l.tenant) IN
    IF ~l.admin THEN Reply(d, l, "forbidden")
    ELSE IF cur = None THEN Reply(d, l, "rejected")
    ELSE IF ~d.rooms[l.room].exists THEN Reply(d, l, "notfound")
    ELSE IF d.asg[cur].room = l.room THEN Reply(d, l, "rejected")
    ELSE [db |-> d,
          l |-> Load(l, d.asg, cur,
                     IF l.move_out_date = None THEN d.today ELSE l.move_out_date,
                     l.move_out_date # None)]

\* The instance end_assignment saves: the loaded row, ended.
EndedRow(l) == [l.obj EXCEPT !.is_current = FALSE, !.move_out_date = l.move_out_date]

\* RoomAssignment.end_assignment: is_current = False, move_out_date, save().
\* clean() compares move_out_date with move_in_date: a string raises.
EndSave(d, l) ==
    IF l.raw_date \/ ~CleanAssignment(d.asg, l.cur, EndedRow(l)) THEN Reply(d, l, "error")
    ELSE IF l.cur \notin DOMAIN d.asg /\ ~d.rooms[l.obj.room].exists THEN Reply(d, l, "error")
    ELSE Goto([d EXCEPT !.asg = (l.cur :> EndedRow(l)) @@ d.asg], l, "free")

\* (variant: end_assignment that leaves the room as it is)
EndFree_NoSave(d, l) ==
    IF l.op = "change_room" THEN Goto(d, l, "valid") ELSE Reply(d, l, "ok")

\* RoomAssignment.end_assignment: room.status = 'available'; room.save()
EndFree(d, l) ==
    IF l.op = "change_room" THEN Goto(SaveRoom(d, l.obj.room, "available"), l, "valid")
    ELSE Reply(SaveRoom(d, l.obj.room, "available"), l, "ok")

\* change_room: serializer.is_valid() for the new assignment
ChangeValid(d, l) ==
    IF CreateSerializerValid(d, l) THEN Goto(d, l, "init") ELSE Reply(d, l, "rejected")

\* delete_room: Room.delete() cascades to the room's assignments; payments of
\* a deleted assignment keep their row (SET_NULL)
DeleteRoom(d, l) ==
    IF ~l.admin THEN Reply(d, l, "forbidden")
    ELSE IF ~d.rooms[l.room].exists THEN Reply(d, l, "notfound")
    ELSE IF d.rooms[l.room].status = "occupied" THEN Reply(d, l, "rejected")
    ELSE LET gone == {j \in DOMAIN d.asg : d.asg[j].room = l.room} IN
         Reply([d EXCEPT !.rooms[l.room].exists = FALSE,
                         !.asg = [i \in DOMAIN d.asg \ gone |-> d.asg[i]],
                         !.pay = [p \in DOMAIN d.pay |->
                                    IF d.pay[p].assignment \in gone
                                    THEN [d.pay[p] EXCEPT !.assignment = None]
                                    ELSE d.pay[p]]],
               l, "ok")

\* update_room with a status in the body (RoomCreateUpdateSerializer)
UpdateRoom(d, l) ==
    IF ~l.admin THEN Reply(d, l, "forbidden")
    ELSE IF ~d.rooms[l.room].exists THEN Reply(d, l, "notfound")
    ELSE Reply([d EXCEPT !.rooms[l.room].status = l.status], l, "ok")

\* create_room: the new row gets the status of the body ('available' is the
\* default of the field)
CreateRoom(d, l) ==
    IF ~l.admin THEN Reply(d, l, "forbidden")
    ELSE Reply([d EXCEPT !.rooms[l.room] = [exists |-> TRUE, status |-> l.status]], l, "ok")

\* update_tenant: TenantProfileUpdateSerializer sets is_active when the body
\* has it
UpdateTenant(d, l) ==
    IF ~l.admin THEN Reply(d, l, "forbidden")
    ELSE IF l.tenant \notin DOMAIN d.tenants THEN Reply(d, l, "notfound")
    ELSE Reply([d EXCEPT !.tenants[l.tenant].is_active =
                            IF l.has_is_active THEN l.is_active ELSE @], l, "ok")

\* delete_tenant: soft delete
DeleteTenant(d, l) ==
    IF ~l.admin THEN Reply(d, l, "forbidden")
    ELSE IF l.tenant \notin DOMAIN d.tenants THEN Reply(d, l, "notfound")
    ELSE IF CurrentOfTenant(d.asg, l.tenant) # {} THEN Reply(d, l, "rejected")
    ELSE Reply([d EXCEPT !.tenants[l.tenant].is_active = FALSE], l, "ok")

\* ------------------------------------------------------------- billing
IsLeap_Julian(y) == y % 4 = 0

IsLeap(y) == (y % 4 = 0 /\ y % 100 # 0) \/ y % 400 = 0

\* calendar.monthrange(year, month)[1]
DaysInMonth(y, m) ==
    IF m = 2 THEN (IF IsLeap(y) THEN 29 ELSE 28)
    ELSE IF m \in {4, 6, 9, 11} THEN 30 ELSE 31

\* date(year, month, due_day), the last day of the month when that is no date
DueDate(y, m, day) == <<y, m, IF day <= DaysInMonth(y, m) THEN day ELSE DaysInMonth(y, m)>>

\* The due date of the management command: date(year, month, due_day), in the
\* except branch date(year, month, min(due_day, last_day))
CommandDueDate(y, m, day) ==
    IF day <= DaysInMonth(y, m) THEN <<y, m, day>>
    ELSE <<y, m, IF day < DaysInMonth(y, m) THEN day ELSE DaysInMonth(y, m)>>

\* Day of the month a payment is due when the request names none.
DefaultDueDay == 5

\* Payment.objects.filter(tenant=t, payment_period_month=m, payment_period_year=y)
PeriodRows(table, t, m, y) ==
    {p \in DOMAIN table : /\ table[p].tenant = t
                          /\ table[p].payment_period_month = m
                          /\ table[p].payment_period_year = y}

\* (variant: no payment counts as paid)
IsPaid_Never(row) == FALSE

\* status == 'paid'
IsPaid(row) == row.status = "paid"

\* (variant: clean() without the rules of a paid payment's payment_date)
CleanPayment_NoDate(row, now) ==
    /\ ~(row.amount # None /\ row.amount <= 0)
    /\ row.payment_period_month >= 1 /\ row.payment_period_month <= 12
    /\ row.payment_period_year >= 2000 /\ row.payment_period_year <= 2100

\* Payment.clean() at date now
CleanPayment(row, now) ==
    /\ ~(row.amount # None /\ row.amount <= 0)
    /\ IsPaid(row) => (row.payment_date # None /\ row.payment_date <= now)
    /\ row.payment_period_month >= 1 /\ row.payment_period_month <= 12
    /\ row.payment_period_year >= 2000 /\ row.payment_period_year <= 2100

\* (variant: a store without the unique constraint)
unique_payment_per_period_Off(table, pk, row) == TRUE

\* UniqueConstraint unique_payment_per_period, checked for the row stored under pk
unique_payment_per_period(table, pk, row) ==
    PeriodRows(table, row.tenant, row.payment_period_month, row.payment_period_year) \ {pk} = {}

\* Foreign keys of a payment row
PaymentKeysValid(d, row) == row.assignment = None \/ row.assignment \in DOMAIN d.asg

NewPayment(t, a, m, y, amount, due, pdate, st) ==
    [tenant |-> t, assignment |-> a, payment_period_month |-> m, payment_period_year |-> y,
     amount |-> amount, due_date |-> due, payment_date |-> pdate, status |-> st,
     payment_method |-> "", payment_reference |-> "", notes |-> "",
     paid_at |-> None, paid_by |-> ""]

\* PaymentCreateSerializer.is_valid(): field validators, then validate()
PaymentSerializerValid(d, l) ==
    /\ d.tenants[l.tenant].user_is_active
    /\ l.amount > 0
    /\ l.month >= 1 /\ l.month <= 12
    /\ l.year >= 2000 /\ l.year <= 2100
    /\ PeriodRows(d.pay, l.tenant, l.month, l.year) = {}
    /\ ~(l.status = "paid" /\ l.payment_date = None)

\* create_payment, up to serializer.is_valid()
PayCreateView(d, l) ==
    IF ~l.admin THEN Reply(d, l, "forbidden")
    ELSE IF ~PaymentSerializerValid(d, l) THEN Reply(d, l, "rejected")
    ELSE Goto(d, l, "lookup")

\* PaymentCreateSerializer.create: tenant.get_current_assignment()
PayCreateLookup(d, l) ==
    [db |-> d, l |-> [l EXCEPT !.pc = "pay_init", !.cur = get_current_assignment(d.asg, l.tenant)]]

\* Payment(**data): the id default is evaluated
PayInit(d, l) ==
    [db |-> d, l |-> [l EXCEPT !.pc = "pay_insert", !.newid = generate_payment_id(d.pay)]]

\* Payment.save() of a new instance: clean(), then INSERT (amount NOT NULL,
\* primary key, unique constraint and foreign key are checked); TRUE when the
\* row can be stored
CanInsertPayment(d, pk, row) ==
    /\ CleanPayment(row, d.today)
    /\ row.amount # None
    /\ pk \notin DOMAIN d.pay
    /\ unique_payment_per_period(d.pay, pk, row)
    /\ PaymentKeysValid(d, row)

\* Payment.save() of a loaded instance: clean(), then UPDATE, INSERT when the
\* UPDATE matched no row
CanSavePayment(d, pk, row) ==
    /\ CleanPayment(row, d.today)
    /\ row.amount # None
    /\ unique_payment_per_period(d.pay, pk, row)
    /\ pk \in DOMAIN d.pay \/ PaymentKeysValid(d, row)

StorePayment(d, pk, row) == [d EXCEPT !.pay = (pk :> row) @@ d.pay]

\* create_payment: super().create(validated_data); due_date as validate() set it
PayCreateInsert(d, l) ==
    LET row == NewPayment(l.tenant, l.cur, l.month, l.year, l.amount,
                          DueDate(l.year, l.month, DefaultDueDay), l.payment_date, l.status)
    IN  IF CanInsertPayment(d, l.newid, row) THEN Reply(StorePayment(d, l.newid, row), l, "ok")
        ELSE Reply(d, l, "error")

RECURSIVE InOrder(_, _, _)
\* The rows ids of table in Meta.ordering (-move_in_date); desc tells how the
\* store breaks a tie.
InOrder(table, ids, desc) ==
    IF ids = {} THEN <<>>
    ELSE LET newest == {i \in ids : \A j \in ids : table[j].move_in_date <= table[i].move_in_date}
             first == CHOOSE i \in newest : \A j \in newest : IF desc THEN j <= i ELSE i <= j
         IN  <<[id |-> first, tenant |-> table[first].tenant,
                monthly_rent |-> table[first].monthly_rent]>>
             \o InOrder(table, ids \ {first}, desc)

\* The loop of generate_monthly_payments goes on with the next assignment, or
\* the view answers with the counts. The message of the answer reads
\* calendar.month_name; the import statement in the loop's except branch
\* makes calendar a local name of the view, bound only once that branch has
\* run (l.calendar), and reading it unbound raises UnboundLocalError.
GenerateNext(d, l) ==
    IF Len(l.queue) # 0 THEN Goto(d, l, "exists")
    ELSE IF l.calendar THEN Reply(d, l, "ok")
    ELSE Reply(d, l, "error")

\* generate_monthly_payments: parameter checks; the loop evaluates
\* RoomAssignment.objects.filter(is_current=True)
GenerateView(d, l) ==
    IF ~l.admin THEN Reply(d, l, "forbidden")
    ELSE IF l.month = None \/ l.year = None THEN Reply(d, l, "rejected")
    ELSE IF l.month < 1 \/ l.month > 12 THEN Reply(d, l, "rejected")
    ELSE IF l.due_day < 1 \/ l.due_day > 31 THEN Reply(d, l, "rejected")
    ELSE GenerateNext(d, [l EXCEPT !.queue =
             InOrder(d.asg, {i \in DOMAIN d.asg : d.asg[i].is_current}, l.desc)])

\* generate_monthly_payments: the existing-payment check of one assignment;
\* for an assignment without a payment the due date is computed, through the
\* except branch when the month has no day due_day
GenerateExists(d, l) ==
    IF PeriodRows(d.pay, Head(l.queue).tenant, l.month, l.year) # {}
    THEN GenerateNext(d, [l EXCEPT !.queue = Tail(@), !.skipped = @ + 1])
    ELSE Goto(d, [l EXCEPT !.calendar = @ \/ l.due_day > DaysInMonth(l.year, l.month)],
              "pay_init")

\* generate_monthly_payments: Payment.objects.create(...) of one assignment
GenerateInsert(d, l) ==
    LET a == Head(l.queue)
        row == NewPayment(a.tenant, a.id, l.month, l.year, a.monthly_rent,
                          DueDate(l.year, l.month, l.due_day), None, "pending")
    IN  IF CanInsertPayment(d, l.newid, row)
        THEN GenerateNext(StorePayment(d, l.newid, row),
                          [l EXCEPT !.queue = Tail(@), !.created = @ + 1])
        ELSE Reply(d, l, "error")

\* The loop of the management command goes on with the next assignment, or
\* the command prints the summary.
CommandNext(d, l) ==
    IF Len(l.queue) # 0 THEN Goto(d, l, "cmd_exists") ELSE Reply(d, l, "ok")

\* Command.handle: option checks, the current assignments, the due date
CommandHandle(d, l) ==
    LET current == {i \in DOMAIN d.asg : d.asg[i].is_current} IN
    IF l.month < 1 \/ l.month > 12 THEN Reply(d, l, "rejected")
    ELSE IF l.year < 2000 \/ l.year > 2100 THEN Reply(d, l, "rejected")
    ELSE IF l.due_day < 1 \/ l.due_day > 31 THEN Reply(d, l, "rejected")
    ELSE IF current = {} THEN Reply(d, l, "ok")
    ELSE CommandNext(d, [l EXCEPT !.queue = InOrder(d.asg, current, l.desc),
                                  !.due_date = CommandDueDate(l.year, l.month, l.due_day)])

\* Command.handle: the existing-payment check of one assignment; with
\* --dry-run the payment is counted and not created
CommandExists(d, l) ==
    IF PeriodRows(d.pay, Head(l.queue).tenant, l.month, l.year) # {}
    THEN CommandNext(d, [l EXCEPT !.queue = Tail(@), !.skipped = @ + 1])
    ELSE IF l.dry_run THEN CommandNext(d, [l EXCEPT !.queue = Tail(@), !.created = @ + 1])
    ELSE Goto(d, l, "pay_init")

\* Command.handle: Payment.objects.create(...) of one assignment; an exception
\* is counted and the loop goes on
CommandInsert(d, l) ==
    LET a == Head(l.queue)
        row == NewPayment(a.tenant, a.id, l.month, l.year, a.monthly_rent,
                          l.due_date, None, "pending")
    IN  IF CanInsertPayment(d, l.newid, row)
        THEN CommandNext(StorePayment(d, l.newid, row),
                         [l EXCEPT !.queue = Tail(@), !.created = @ + 1])
        ELSE CommandNext(d, [l EXCEPT !.queue = Tail(@), !.errors = @ + 1])

\* (variant: mark_as_paid without the admin check)
MarkView_NoAdminCheck(d, l) ==
    IF l.pk \notin DOMAIN d.pay THEN Reply(d, l, "notfound")
    ELSE IF IsPaid(d.pay[l.pk]) THEN Reply(d, l, "rejected")
    ELSE [db |-> d,
          l |-> [l EXCEPT !.pc = "pay_save", !.obj = d.pay[l.pk],
                          !.payment_date = IF @ = None THEN d.today ELSE @]]

\* mark_as_paid (view), up to the call of Payment.mark_as_paid
MarkView(d, l) ==
    IF ~l.admin THEN Reply(d, l, "forbidden")
    ELSE IF l.pk \notin DOMAIN d.pay THEN Reply(d, l, "notfound")
    ELSE IF IsPaid(d.pay[l.pk]) THEN Reply(d, l, "rejected")
    ELSE [db |-> d,
          l |-> [l EXCEPT !.pc = "pay_save", !.obj = d.pay[l.pk],
                          !.payment_date = IF @ = None THEN d.today ELSE @]]

\* The instance Payment.mark_as_paid saves at date now
MarkedRow(l, now) ==
    [l.obj EXCEPT !.status = "paid",
                  !.payment_date = IF l.payment_date = None THEN now ELSE l.payment_date,
                  !.paid_at = now,
                  !.payment_method = IF l.payment_method = "" THEN @ ELSE l.payment_method,
                  !.paid_by = IF l.actor = "" THEN @ ELSE l.actor,
                  !.notes = IF l.notes = "" THEN @ ELSE l.notes]

\* Payment.mark_as_paid: refuses a paid instance, else sets the fields and saves
MarkSave(d, l) ==
    LET row == MarkedRow(l, d.today) IN
    IF IsPaid(l.obj) THEN Reply(d, l, "rejected")
    ELSE IF ~CanSavePayment(d, l.pk, row) THEN Reply(d, l, "error")
    ELSE IF l.payment_reference = "" THEN Reply(StorePayment(d, l.pk, row), l, "ok")
    ELSE Goto(StorePayment(d, l.pk, row), [l EXCEPT !.obj = row], "pay_ref")

\* mark_as_paid (view): payment.payment_reference = ...; payment.save()
MarkReference(d, l) ==
    LET row == [l.obj EXCEPT !.payment_reference = l.payment_reference] IN
    IF CanSavePayment(d, l.pk, row) THEN Reply(StorePayment(d, l.pk, row), l, "ok")
    ELSE Reply(d, l, "error")

PayDeleteView_NoPaidCheck(d, l) ==
    IF ~l.admin THEN Reply(d, l, "forbidden")
    ELSE IF l.pk \notin DOMAIN d.pay THEN Reply(d, l, "notfound")
    ELSE Goto(d, l, "pay_delete")

\* delete_payment, up to payment.delete()
PayDeleteView(d, l) ==
    IF ~l.admin THEN Reply(d, l, "forbidden")
    ELSE IF l.pk \notin DOMAIN d.pay THEN Reply(d, l, "notfound")
    ELSE IF IsPaid(d.pay[l.pk]) THEN Reply(d, l, "rejected")
    ELSE Goto(d, l, "pay_delete")

\* payment.delete()
PayDelete(d, l) ==
    Reply([d EXCEPT !.pay = [p \in DOMAIN d.pay \ {l.pk} |-> d.pay[p]]], l, "ok")

\* update_payment, up to serializer.save(): the payment is loaded and
\* PaymentUpdateSerializer.validate() checks the status of the body ("" when
\* the body has none) against the loaded one
UpdateView(d, l) ==
    IF ~l.admin THEN Reply(d, l, "forbidden")
    ELSE IF l.pk \notin DOMAIN d.pay THEN Reply(d, l, "notfound")
    ELSE LET instance == d.pay[l.pk]
             new_status == IF l.status = "" THEN instance.status ELSE l.status
         IN  IF instance.status = "paid" /\ new_status = "pending" THEN Reply(d, l, "rejected")
             ELSE IF /\ new_status = "paid"
                     /\ l.payment_date = None
                     /\ instance.payment_date = None THEN Reply(d, l, "rejected")
             ELSE [db |-> d,
                   l |-> [l EXCEPT !.pc = "pay_update",
                                   !.obj = [instance EXCEPT
                                              !.status = new_status,
                                              !.payment_date = IF l.payment_date = None THEN @
                                                               ELSE l.payment_date]]]

\* update_payment: serializer.save() sets the fields and saves the instance
UpdateSave(d, l) ==
    IF CanSavePayment(d, l.pk, l.obj) THEN Reply(StorePayment(d, l.pk, l.obj), l, "ok")
    ELSE Reply(d, l, "error")

\* date.replace(year=y, month=m, day=d); <<>> stands for the ValueError of a
\* day the month does not have
Replace(y, m, d) == IF d <= DaysInMonth(y, m) THEN <<y, m, d>> ELSE <<>>

\* (variant: the step back one month keeps the day of the month)
PreviousMonth_KeepDay(current_date) ==
    IF current_date[2] = 1 THEN Replace(current_date[1] - 1, 12, current_date[3])
    ELSE Replace(current_date[1], current_date[2] - 1, current_date[3])

\* payment_statistics, "Go back one month"
PreviousMonth(current_date) ==
    IF current_date[2] = 1 THEN Replace(current_date[1] - 1, 12, 1)
    ELSE Replace(current_date[1], current_date[2] - 1, 1)

RECURSIVE SumAmount(_, _)
\* aggregate(Sum('amount'))['amount__sum'] or Decimal('0') over the rows ps
SumAmount(table, ps) ==
    IF ps = {} THEN 0
    ELSE LET p == CHOOSE x \in ps : TRUE IN table[p].amount + SumAmount(table, ps \ {p})

\* all_payments.filter(status='paid', payment_period_year=y, payment_period_month=m)
PaidInPeriod(table, y, m) ==
    {p \in DOMAIN table : /\ table[p].status = "paid"
                          /\ table[p].payment_period_year = y
                          /\ table[p].payment_period_month = m}

RECURSIVE MonthlyRevenue(_, _, _, _)
\* payment_statistics, the loop "for i in range(12)" from its i-th round on:
\* the entry of current_date's month is put in front of monthly_revenue, then
\* current_date goes back one month. float() of a sum of whole amounts is
\* that amount. ok is FALSE when replace() raised.
MonthlyRevenue(table, current_date, i, monthly_revenue) ==
    IF i = 12 THEN [ok |-> TRUE, rows |-> monthly_revenue]
    ELSE LET year == current_date[1]
             month == current_date[2]
             entry == [year |-> year, month |-> month,
                       revenue |-> SumAmount(table, PaidInPeriod(table, year, month))]
             previous == PreviousMonth(current_date)
         IN  IF previous = <<>> THEN [ok |-> FALSE, rows |-> <<>>]
             ELSE MonthlyRevenue(table, previous, i + 1, <<entry>> \o monthly_revenue)

\* payment_statistics at the date l.now
StatisticsView(d, l) ==
    IF ~l.admin THEN Reply(d, l, "forbidden")
    ELSE LET r == MonthlyRevenue(d.pay, l.now, 0, <<>>) IN
         IF r.ok THEN Reply(d, [l EXCEPT !.stats = r.rows], "ok")
         ELSE Reply(d, l, "error")

\* PaymentAdmin.mark_as_cancelled_action on the selected payment:
\* queryset.exclude(status='paid').update(status='cancelled'), one UPDATE
AdminCancel(d, l) ==
    IF l.pk \in DOMAIN d.pay /\ d.pay[l.pk].status # "paid"
    THEN Reply([d EXCEPT !.pay[l.pk].status = "cancelled"], l, "ok")
    ELSE Reply(d, l, "rejected")

\* A caller of Payment.cancel loads the payment
CancelLoad(d, l) ==
    IF l.pk \notin DOMAIN d.pay THEN Reply(d, l, "notfound")
    ELSE [db |-> d, l |-> [l EXCEPT !.pc = "pay_cancel", !.obj = d.pay[l.pk]]]

\* Payment.cancel: refuses a paid instance, else status 'cancelled', notes, save()
Cancel(d, l) ==
    LET row == [l.obj EXCEPT !.status = "cancelled",
                             !.notes = IF l.notes = "" THEN @ ELSE l.notes]
    IN  IF l.obj.status = "paid" THEN Reply(d, l, "rejected")
        ELSE IF CanSavePayment(d, l.pk, row) THEN Reply(StorePayment(d, l.pk, row), l, "ok")
        ELSE Reply(d, l, "error")

\* ----------------------------------------------------------- complaints
\* A Complaint row as ComplaintCreateView stores it; NULL resolution_notes and
\* resolved_by are "" (both are empty to a truth test), NULL resolved_at is None
NewComplaint(t) ==
    [tenant |-> t, status |-> "open", resolution_notes |-> "", resolved_at |-> None,
     resolved_by |-> ""]

\* ComplaintCreateView: the caller needs a tenant profile; INSERT
ComplaintCreate(d, l) ==
    IF l.tenant \notin DOMAIN d.tenants THEN Reply(d, l, "forbidden")
    ELSE Reply([d EXCEPT !.complaints = Append(@, NewComplaint(l.tenant))], l, "ok")

\* ComplaintUpdateView, up to serializer.save(): permission, get_object(),
\* ComplaintUpdateSerializer.validate()
ComplaintUpdateView(d, l) ==
    IF ~l.admin THEN Reply(d, l, "forbidden")
    ELSE IF l.pk \notin DOMAIN d.complaints THEN Reply(d, l, "notfound")
    ELSE LET instance == d.complaints[l.pk]
             new_status == IF l.status = "" THEN instance.status ELSE l.status
         IN  IF /\ new_status = "resolved"
                /\ ~(l.has_notes /\ l.notes # "")
                /\ instance.resolution_notes = "" THEN Reply(d, l, "rejected")
             ELSE [db |-> d, l |-> [l EXCEPT !.pc = "cmp_update", !.obj = instance]]

\* perform_update and ComplaintUpdateSerializer.update(): resolved_at is set
\* when the status becomes 'resolved', the fields of the body and, for a body
\* with status 'resolved', resolved_by are set; instance.save()
ComplaintUpdateSave(d, l) ==
    LET new_status == IF l.status = "" THEN l.obj.status ELSE l.status
        row == [l.obj EXCEPT
                  !.resolved_at = IF new_status = "resolved" /\ l.obj.status # "resolved"
                                  THEN d.today ELSE @,
                  !.status = new_status,
                  !.resolution_notes = IF l.has_notes THEN l.notes ELSE @,
                  !.resolved_by = IF l.status = "resolved" THEN l.actor ELSE @]
    IN  Reply([d EXCEPT !.complaints[l.pk] = row], l, "ok")

\* A caller of Complaint.mark_as_resolved or Complaint.close, or the admin
\* action mark_closed, loads the complaint
ComplaintLoad(d, l) ==
    IF l.pk \notin DOMAIN d.complaints THEN Reply(d, l, "notfound")
    ELSE [db |-> d, l |-> [l EXCEPT !.pc = "cmp_method", !.obj = d.complaints[l.pk]]]

\* Complaint.mark_as_resolved(resolution_notes, resolved_by)
MarkAsResolved(d, l) ==
    LET row == [l.obj EXCEPT !.status = "resolved",
                             !.resolved_at = d.today,
                             !.resolution_notes = IF l.notes = "" THEN @ ELSE l.notes,
                             !.resolved_by = IF l.actor = "" THEN @ ELSE l.actor]
    IN  IF l.obj.status \in {"resolved", "closed"} THEN Reply(d, l, "rejected")
        ELSE Reply([d EXCEPT !.complaints[l.pk] = row], l, "ok")

\* Complaint.close()
Close(d, l) ==
    LET row == [l.obj EXCEPT !.status = "closed",
                             !.resolved_at = IF @ = None THEN d.today ELSE @]
    IN  IF l.obj.status = "closed" THEN Reply(d, l, "rejected")
        ELSE Reply([d EXCEPT !.complaints[l.pk] = row], l, "ok")

\* ComplaintAdmin.mark_in_progress on the selected complaint: one UPDATE
AdminMarkInProgress(d, l) ==
    IF l.pk \notin DOMAIN d.complaints THEN Reply(d, l, "notfound")
    ELSE Reply([d EXCEPT !.complaints[l.pk].status = "in_progress"], l, "ok")

\* ComplaintAdmin.mark_resolved on the selected complaint: one UPDATE
AdminMarkResolved(d, l) ==
    IF l.pk \notin DOMAIN d.complaints THEN Reply(d, l, "notfound")
    ELSE Reply([d EXCEPT !.complaints[l.pk].status = "resolved",
                         !.complaints[l.pk].resolved_at = d.today,
                         !.complaints[l.pk].resolved_by = l.actor], l, "ok")

\* ComplaintAdmin.mark_closed, for the loaded complaint
AdminMarkClosed(d, l) ==
    LET row == [l.obj EXCEPT !.resolved_at = IF @ = None THEN d.today ELSE @,
                             !.status = "closed"]
    IN  Reply([d EXCEPT !.complaints[l.pk] = row], l, "ok")

\* ---------------------------------------------------------------- users
\* UserManager._generate_user_id
generate_user_id(table) == NextId(DOMAIN table)

\* TenantProfile.objects.filter(user=u)
ProfilesOf(table, u) == {p \in DOMAIN table : table[p].user = u}

\* User.save() of user u: the row is stored; post_save runs
\* create_tenant_profile (a TenantProfile for a created user of role 'user')
\* and save_tenant_profile (saves the profile again, no field changes).
\* user_is_active of a profile is the is_active of its user.
SaveUser(d, u, row, created) ==
    LET profiles == IF created /\ row.role = "user"
                    THEN Append(d.tenants, [user |-> u, is_active |-> TRUE,
                                            user_is_active |-> row.is_active])
                    ELSE d.tenants
    IN  [d EXCEPT !.users = (u :> row) @@ @,
                  !.tenants = [p \in DOMAIN profiles |->
                                  IF profiles[p].user = u
                                  THEN [profiles[p] EXCEPT !.user_is_active = row.is_active]
                                  ELSE profiles[p]]]

\* register_user / createsuperuser, up to user.save(): UserManager.create_user
\* evaluates the id
CreateUserView(d, l) ==
    [db |-> d, l |-> [l EXCEPT !.pc = "user_insert", !.newid = generate_user_id(d.users)]]

\* UserManager.create_user: user.save() inserts the user (role 'user' unless
\* create_superuser set 'admin')
CreateUserInsert(d, l) ==
    IF l.newid \in DOMAIN d.users THEN Reply(d, l, "error")
    ELSE Reply(SaveUser(d, l.newid, [role |-> l.role, is_active |-> TRUE], TRUE), l, "ok")

\* update_user, up to serializer.save()
UpdateUserView(d, l) ==
    IF ~l.admin THEN Reply(d, l, "forbidden")
    ELSE IF l.pk \notin DOMAIN d.users THEN Reply(d, l, "notfound")
    ELSE [db |-> d, l |-> [l EXCEPT !.pc = "user_update", !.obj = d.users[l.pk]]]

\* update_user: serializer.save() sets the fields of the body and saves the user
UpdateUserSave(d, l) ==
    LET row == [l.obj EXCEPT !.role = IF l.role = "" THEN @ ELSE l.role,
                             !.is_active = IF l.has_is_active THEN l.is_active ELSE @]
    IN  Reply(SaveUser(d, l.pk, row, FALSE), l, "ok")

\* delete_user, up to user.save()
DeleteUserView(d, l) ==
    IF ~l.admin THEN Reply(d, l, "forbidden")
    ELSE IF l.pk \notin DOMAIN d.users THEN Reply(d, l, "notfound")
    ELSE [db |-> d, l |-> [l EXCEPT !.pc = "user_delete", !.obj = d.users[l.pk]]]

\* delete_user: soft delete, user.save()
DeleteUserSave(d, l) ==
    Reply(SaveUser(d, l.pk, [l.obj EXCEPT !.is_active = FALSE], FALSE), l, "ok")

\* One query block of one request.
Step(d, l) ==
    CASE l.pc = "view" /\ l.op = "assign_room" -> AssignView(d, l)
      [] l.pc = "view" /\ l.op = "unassign_room" -> UnassignView(d, l)
      [] l.pc = "view" /\ l.op = "change_room" -> ChangeView(d, l)
      [] l.pc = "view" /\ l.op = "delete_room" -> DeleteRoom(d, l)
      [] l.pc = "view" /\ l.op = "update_room" -> UpdateRoom(d, l)
      [] l.pc = "view" /\ l.op = "delete_tenant" -> DeleteTenant(d, l)
      [] l.pc = "view" /\ l.op = "create_room" -> CreateRoom(d, l)
      [] l.pc = "view" /\ l.op = "update_tenant" -> UpdateTenant(d, l)
      [] l.pc = "view" /\ l.op = "create_payment" -> PayCreateView(d, l)
      [] l.pc = "view" /\ l.op = "payment_statistics" -> StatisticsView(d, l)
      [] l.pc = "view" /\ l.op = "generate_monthly_payments" -> GenerateView(d, l)
      [] l.pc = "view" /\ l.op = "mark_as_paid" -> MarkView(d, l)
      [] l.pc = "view" /\ l.op = "delete_payment" -> PayDeleteView(d, l)
      [] l.pc = "lookup" -> PayCreateLookup(d, l)
      [] l.pc = "exists" -> GenerateExists(d, l)
      [] l.pc = "pay_init" -> PayInit(d, l)
      [] l.pc = "pay_insert" /\ l.op = "create_payment" -> PayCreateInsert(d, l)
      [] l.pc = "pay_insert" /\ l.op = "generate_monthly_payments" -> GenerateInsert(d, l)
      [] l.pc = "pay_save" -> MarkSave(d, l)
      [] l.pc = "pay_ref" -> MarkReference(d, l)
      [] l.pc = "pay_delete" -> PayDelete(d, l)
      [] l.pc = "view" /\ l.op = "update_payment" -> UpdateView(d, l)
      [] l.pc = "pay_update" -> UpdateSave(d, l)
      [] l.pc = "view" /\ l.op = "mark_as_cancelled_action" -> AdminCancel(d, l)
      [] l.pc = "view" /\ l.op = "cancel" -> CancelLoad(d, l)
      [] l.pc = "pay_cancel" -> Cancel(d, l)
      [] l.pc = "view" /\ l.op = "command" -> CommandHandle(d, l)
      [] l.pc = "cmd_exists" -> CommandExists(d, l)
      [] l.pc = "pay_insert" /\ l.op = "command" -> CommandInsert(d, l)
      [] l.pc = "view" /\ l.op = "create_complaint" -> ComplaintCreate(d, l)
      [] l.pc = "view" /\ l.op = "update_complaint" -> ComplaintUpdateView(d, l)
      [] l.pc = "cmp_update" -> ComplaintUpdateSave(d, l)
      [] l.pc = "view" /\ l.op \in {"mark_as_resolved", "close", "mark_closed"} -> ComplaintLoad(d, l)
      [] l.pc = "cmp_method" /\ l.op = "mark_as_resolved" -> MarkAsResolved(d, l)
      [] l.pc = "cmp_method" /\ l.op = "close" -> Close(d, l)
      [] l.pc = "cmp_method" /\ l.op = "mark_closed" -> AdminMarkClosed(d, l)
      [] l.pc = "view" /\ l.op = "mark_in_progress" -> AdminMarkInProgress(d, l)
      [] l.pc = "view" /\ l.op = "mark_resolved" -> AdminMarkResolved(d, l)
      [] l.pc = "view" /\ l.op \in {"register_user", "create_superuser"} -> CreateUserView(d, l)
      [] l.pc = "user_insert" -> CreateUserInsert(d, l)
      [] l.pc = "view" /\ l.op = "update_user" -> UpdateUserView(d, l)
      [] l.pc = "user_update" -> UpdateUserSave(d, l)
      [] l.pc = "view" /\ l.op = "delete_user" -> DeleteUserView(d, l)
      [] l.pc = "user_delete" -> DeleteUserSave(d, l)
      [] l.pc = "valid" -> ChangeValid(d, l)
      [] l.pc = "init" -> CreateInit(d, l)
      [] l.pc = "clean" -> CreateClean(d, l)
      [] l.pc = "insert" -> CreateInsert(d, l)
      [] l.pc = "occupy" -> CreateOccupy(d, l)
      [] l.pc = "end" -> EndSave(d, l)
      [] l.pc = "free" -> EndFree(d, l)

RECURSIVE Run(_, _)
\* A request served without interruption.
Run(d, l) == IF l.pc = "done" THEN [db |-> d, l |-> l]
             ELSE LET s == Step(d, l) IN Run(s.db, s.l)

\* What is remembered of the request answered last.
Response(l) ==
    [op |-> l.op, res |-> l.res, cur |-> l.cur, pk |-> l.pk, actor |-> l.actor,
     month |-> l.month, year |-> l.year, due_day |-> l.due_day,
     created |-> l.created, skipped |-> l.skipped, now |-> l.now, stats |-> l.stats,
     dry_run |-> l.dry_run]

Handle(l0) ==
    LET r == Run(DB, l0) IN
    /\ SetDB(r.db)
    /\ last' = Response(r.l)
    /\ UNCHANGED req

\* --------------------------------------------------------------- actions
RoomStatuses == {"available", "occupied", "maintenance"}

AssignRoomReq(admin, t, r, mi, le, rent) == NewReq("assign_room", admin, t, r, mi, le, None, rent)
UnassignRoomReq(admin, t, mo) == NewReq("unassign_room", admin, t, None, None, None, mo, None)
ChangeRoomReq(admin, t, r, mi, le, mo, rent) == NewReq("change_room", admin, t, r, mi, le, mo, rent)
DeleteRoomReq(admin, r) == NewReq("delete_room", admin, None, r, None, None, None, None)
UpdateRoomReq(admin, r, st) == [NewReq("update_room", admin, None, r, None, None, None, None) EXCEPT !.status = st]
DeleteTenantReq(admin, t) == NewReq("delete_tenant", admin, t, None, None, None, None, None)

\* The assignment table may still grow, or the next insert cannot add a row.
RowsLeft ==
    \/ Cardinality(DOMAIN asg) < MaxAsgRows
    \/ generate_assignment_id(asg) \in DOMAIN asg

\* A caller who is not an admin is turned away before the body is read: one
\* body stands for all of them.
Caller(admin, body, default) == admin \/ body = default

assign_room ==
    /\ RowsLeft
    /\ \E admin \in BOOLEAN, t \in Tenants, r \in Rooms, mi \in Days, rent \in Rents :
      \E le \in LeaseEnds(mi) :
        /\ Caller(admin, <<r, mi, le>>, <<1, 1, None>>)
        /\ Handle(AssignRoomReq(admin, t, r, mi, le, rent))

unassign_room ==
    \E admin \in BOOLEAN, t \in Tenants, mo \in Days \cup {None} :
        /\ Caller(admin, mo, None)
        /\ Handle(UnassignRoomReq(admin, t, mo))

change_room ==
    /\ RowsLeft
    /\ \E admin \in BOOLEAN, t \in Tenants, r \in Rooms, mi \in MoveIns, mo \in MoveOuts,
       rent \in Rents :
        /\ Caller(admin, <<r, mi, mo>>, <<1, 1, None>>)
        /\ Handle(ChangeRoomReq(admin, t, r, mi, None, mo, rent))

update_room ==
    \E admin \in BOOLEAN, r \in Rooms, st \in RoomStatuses :
        /\ Caller(admin, st, "available")
        /\ Handle(UpdateRoomReq(admin, r, st))

delete_tenant ==
    \E admin \in BOOLEAN, t \in Tenants :
        Handle(DeleteTenantReq(admin, t))

\* Every tenant t is the TenantProfile of the user t, who has role 'user'.
EveryUser == [t \in Tenants |-> [role |-> "user", is_active |-> TRUE]]
EveryTenant == [t \in Tenants |-> [user |-> t, is_active |-> TRUE, user_is_active |-> TRUE]]

\* The calendar advances.
Tick ==
    /\ today < MaxDay
    /\ today' = today + 1
    /\ UNCHANGED <<rooms, tenants, asg, pay, req, last, ever_paid, complaints, users>>

Init ==
    /\ rooms = [r \in Rooms |-> [exists |-> TRUE, status |-> "available"]]
    /\ tenants = EveryTenant
    /\ asg = <<>>
    /\ pay = <<>>
    /\ today = 1
    /\ req = [w \in Workers |-> Idle]
    /\ last = Response(Blank)
    /\ ever_paid = {}
    /\ complaints = <<>>
    /\ users = EveryUser

Next ==
    \/ assign_room
    \/ unassign_room
    \/ change_room
    \/ update_room
    \/ delete_tenant
    \/ Tick

Spec == Init /\ [][Next]_vars

\* The same requests, served after many assignments: ASN-999 is on file (the
\* rows before it went with their rooms).
InitLong ==
    /\ rooms = [r \in Rooms |-> [exists |-> TRUE, status |-> "available"]]
    /\ tenants = EveryTenant
    /\ asg = ((10 ^ IdWidth - 1) :>
                [tenant |-> 1, room |-> 1, move_in_date |-> 1, lease_end_date |-> None,
                 move_out_date |-> 1, is_current |-> FALSE, monthly_rent |-> 5])
    /\ pay = <<>>
    /\ today = 1
    /\ req = [w \in Workers |-> Idle]
    /\ last = Response(Blank)
    /\ ever_paid = {}
    /\ complaints = <<>>
    /\ users = EveryUser

SpecLong == InitLong /\ [][Next]_vars

\* ------------------------------------------------- billing, one by one
PaymentReq(op, admin, actor, t, pk, m, y) ==
    [Blank EXCEPT !.op = op, !.admin = admin, !.actor = actor, !.tenant = t, !.pk = pk,
                  !.month = m, !.year = y]

CreatePaymentReq(admin, t, m, y, amount, st, pdate) ==
    [PaymentReq("create_payment", admin, "", t, None, m, y)
        EXCEPT !.amount = amount, !.status = st, !.payment_date = pdate]

GenerateReq(admin, m, y, day, desc) ==
    [PaymentReq("generate_monthly_payments", admin, "", None, None, m, y)
        EXCEPT !.due_day = day, !.desc = desc]

CommandReq(m, y, day) ==
    [PaymentReq("command", TRUE, "", None, None, m, y) EXCEPT !.due_day = day]

MarkAsPaidReq(admin, pk, body) ==
    [PaymentReq("mark_as_paid", admin, body[1], None, pk, None, None)
        EXCEPT !.payment_date = body[2], !.payment_method = body[3],
               !.payment_reference = body[4], !.notes = body[5]]

DeletePaymentReq(admin, pk) == PaymentReq("delete_payment", admin, "", None, pk, None, None)

UpdatePaymentReq(admin, pk, st, pdate) ==
    [PaymentReq("update_payment", admin, "", None, pk, None, None)
        EXCEPT !.status = st, !.payment_date = pdate]

AdminCancelReq(pk) == PaymentReq("mark_as_cancelled_action", TRUE, "", None, pk, None, None)

CancelReq(pk) == PaymentReq("cancel", TRUE, "", None, pk, None, None)

PayIds == 1..MaxPayId

\* Payment rows the requests under way may still insert.
Inserting ==
    LET n(w) == IF req[w].op = "create_payment" THEN 1
                ELSE IF req[w].op = "generate_monthly_payments" THEN Len(req[w].queue)
                ELSE 0
        sum[S \in SUBSET Workers] ==
            IF S = {} THEN 0 ELSE LET w == CHOOSE x \in S : TRUE IN n(w) + sum[S \ {w}]
    IN  sum[Workers]

\* n more payment rows get ids within the bound.
PayIdsLeft(n, max) == generate_payment_id(pay) + n - 1 <= max

\* Assignments a generate_monthly_payments for the period would bill.
Unbilled(m, y) ==
    {i \in DOMAIN asg : asg[i].is_current /\ PeriodRows(pay, asg[i].tenant, m, y) = {}}

create_payment ==
    /\ PayIdsLeft(1, MaxPayId)
    /\ \E admin \in BOOLEAN, t \in Tenants, m \in Months, y \in Years, amount \in Amounts,
       st \in Statuses, pdate \in PaymentDates :
        /\ Caller(admin, <<m, amount, st, pdate>>, <<1, 5, "pending", None>>)
        /\ Handle(CreatePaymentReq(admin, t, m, y, amount, st, pdate))

generate_monthly_payments ==
    \E m \in Months \cup {None}, y \in Years :
      /\ PayIdsLeft(Cardinality(Unbilled(m, y)), MaxPayId)
      /\ \E admin \in BOOLEAN, day \in DueDays, desc \in BOOLEAN :
        /\ Caller(admin, <<m, desc>>, <<1, FALSE>>)
        /\ Handle(GenerateReq(admin, m, y, day, desc))

mark_as_paid ==
    \E admin \in BOOLEAN, pk \in PayIds, body \in MarkBodies :
        /\ Caller(admin, body[1], "admin1")
        /\ Handle(MarkAsPaidReq(admin, pk, body))

delete_payment ==
    \E admin \in BOOLEAN, pk \in PayIds :
        Handle(DeletePaymentReq(admin, pk))

update_payment ==
    \E admin \in BOOLEAN, pk \in PayIds, body \in UpdateBodies :
        /\ Caller(admin, body, <<"", None>>)
        /\ Handle(UpdatePaymentReq(admin, pk, body[1], body[2]))

mark_as_cancelled_action == \E pk \in PayIds : Handle(AdminCancelReq(pk))

cancel == \E pk \in PayIds : Handle(CancelReq(pk))

\* Every tenant t lives in room t (as far as there are rooms); nothing billed yet.
InitBill ==
    /\ rooms = [r \in Rooms |-> [exists |-> TRUE,
                                 status |-> IF r \in Tenants THEN "occupied" ELSE "available"]]
    /\ tenants = EveryTenant
    /\ asg = [t \in Tenants \cap Rooms |->
                [tenant |-> t, room |-> t, move_in_date |-> 1, lease_end_date |-> None,
                 move_out_date |-> None, is_current |-> TRUE, monthly_rent |-> 5]]
    /\ pay = <<>>
    /\ today = 1
    /\ req = [w \in Workers |-> Idle]
    /\ last = Response(Blank)
    /\ ever_paid = {}
    /\ complaints = <<>>
    /\ users = EveryUser

NextBill ==
    \/ create_payment
    \/ generate_monthly_payments
    \/ mark_as_paid
    \/ delete_payment
    \/ Tick

SpecBill == InitBill /\ [][NextBill]_vars

\* Some tenants live in the room of their number, the others have no
\* assignment; nothing billed yet.
InitGen ==
    \E housed \in SUBSET (Tenants \cap Rooms) :
        /\ rooms = [r \in Rooms |-> [exists |-> TRUE,
                                     status |-> IF r \in housed THEN "occupied" ELSE "available"]]
        /\ tenants = EveryTenant
        /\ asg = [t \in housed |->
                    [tenant |-> t, room |-> t, move_in_date |-> 1, lease_end_date |-> None,
                     move_out_date |-> None, is_current |-> TRUE, monthly_rent |-> 5]]
        /\ pay = <<>>
        /\ today = 1
        /\ req = [w \in Workers |-> Idle]
        /\ last = Response(Blank)
        /\ ever_paid = {}
        /\ complaints = <<>>
        /\ users = EveryUser

SpecGen == InitGen /\ [][NextBill]_vars

\* monthly_rent of a stored assignment: RoomAssignment.monthly_rent has no
\* validator, assign_room stores what the body names (a refund entered as a
\* negative rent, say).
StoredRents == {-5, 5}

\* Every tenant t lives in room t, at any stored rent; nothing billed yet.
InitRent ==
    \E rent \in [Tenants \cap Rooms -> StoredRents] :
        /\ rooms = [r \in Rooms |-> [exists |-> TRUE,
                                     status |-> IF r \in Tenants THEN "occupied" ELSE "available"]]
        /\ tenants = EveryTenant
        /\ asg = [t \in Tenants \cap Rooms |->
                    [tenant |-> t, room |-> t, move_in_date |-> 1, lease_end_date |-> None,
                     move_out_date |-> None, is_current |-> TRUE, monthly_rent |-> rent[t]]]
        /\ pay = <<>>
        /\ today = 1
        /\ req = [w \in Workers |-> Idle]
        /\ last = Response(Blank)
        /\ ever_paid = {}
        /\ complaints = <<>>
        /\ users = EveryUser

\* create_payment for the first period
create_payment_first ==
    /\ PayIdsLeft(1, MaxPayId)
    /\ \E admin \in BOOLEAN, t \in Tenants, amount \in Amounts, st \in Statuses,
       pdate \in PaymentDates :
        /\ Caller(admin, <<amount, st, pdate>>, <<5, "pending", None>>)
        /\ Handle(CreatePaymentReq(admin, t, 1, 2025, amount, st, pdate))

\* The operations that store a payment, at one date.
NextRent ==
    \/ create_payment_first
    \/ generate_monthly_payments
    \/ mark_as_paid
    \/ update_payment

SpecRent == InitRent /\ [][NextRent]_vars

DryRunReq(m, y, day) == [CommandReq(m, y, day) EXCEPT !.dry_run = TRUE]

\* python manage.py generate_monthly_payments --month m --year 2025
command_run ==
    \E m \in Months :
        /\ PayIdsLeft(Cardinality(Unbilled(m, 2025)), MaxPayId)
        /\ Handle(CommandReq(m, 2025, DefaultDueDay))

\* python manage.py generate_monthly_payments --month m --year 2025 --dry-run
command_dry_run == \E m \in Months : Handle(DryRunReq(m, 2025, DefaultDueDay))

\* The command with and without --dry-run, between payments and deletions.
NextDry ==
    \/ command_run
    \/ command_dry_run
    \/ mark_as_paid
    \/ delete_payment

SpecDry == InitRent /\ [][NextDry]_vars

\* Months, years and due days of the periods billed in SpecDue: every month
\* and day, leap and common years, and both ends of the years a payment may have
DueMonths == 1..12
DueYears == {2000, 2024, 2025, 2100}
AllDueDays == 1..31

\* generate_monthly_payments for a period that is not billed yet
generate_period ==
    \E m \in DueMonths, y \in DueYears :
      /\ Unbilled(m, y) # {}
      /\ PayIdsLeft(Cardinality(Unbilled(m, y)), MaxPayId)
      /\ \E day \in AllDueDays : Handle(GenerateReq(TRUE, m, y, day, FALSE))

\* python manage.py generate_monthly_payments for a period that is not billed yet
command ==
    \E m \in DueMonths, y \in DueYears :
      /\ Unbilled(m, y) # {}
      /\ PayIdsLeft(Cardinality(Unbilled(m, y)), MaxPayId)
      /\ \E day \in AllDueDays : Handle(CommandReq(m, y, day))

NextDue ==
    \/ generate_period
    \/ command

SpecDue == InitBill /\ [][NextDue]_vars

\* The operations that change the status of a stored payment, on the
\* payments that generate_monthly_payments creates
NextStatus ==
    \/ generate_monthly_payments
    \/ mark_as_paid
    \/ update_payment
    \/ mark_as_cancelled_action
    \/ cancel
    \/ delete_payment

SpecStatus == InitBill /\ [][NextStatus]_vars

\* Calendar dates timezone.now().date() may be when payment_statistics runs:
\* last days of long and short months, a leap day, both sides of a new year
StatDates == {<<2024, 2, 29>>, <<2025, 1, 31>>, <<2025, 3, 31>>, <<2025, 5, 15>>,
              <<2025, 12, 31>>, <<2026, 1, 30>>}

StatisticsReq(admin, now) ==
    [PaymentReq("payment_statistics", admin, "", None, None, None, None) EXCEPT !.now = now]

payment_statistics ==
    \E admin \in BOOLEAN, now \in StatDates :
        /\ Caller(admin, now, <<2025, 1, 31>>)
        /\ Handle(StatisticsReq(admin, now))

\* Payments are billed, paid and deleted, and the statistics are read.
NextStats ==
    \/ generate_monthly_payments
    \/ mark_as_paid
    \/ delete_payment
    \/ payment_statistics

SpecStats == InitBill /\ [][NextStats]_vars

\* ------------------------------------------------ complaints, sequential
\* A complaint request: op on complaint pk by actor ("" for no resolved_by),
\* with the status ("" when the body has none) and the resolution_notes
\* (has_notes: the body has them) of the body or call
ComplaintReq(op, admin, actor, pk, st, has_notes, notes) ==
    [Blank EXCEPT !.op = op, !.admin = admin, !.actor = actor, !.pk = pk, !.status = st,
                  !.has_notes = has_notes, !.notes = notes]

ComplaintIds == 1..MaxComplaints

ComplaintStatuses == {"", "open", "in_progress", "resolved", "closed"}

\* resolution_notes of an update body: none, empty, some text
NotesBodies == {<<FALSE, "">>, <<TRUE, "">>, <<TRUE, "fixed">>}

create_complaint ==
    /\ Len(complaints) < MaxComplaints
    /\ \E t \in Tenants :
          Handle([ComplaintReq("create_complaint", FALSE, "", None, "", FALSE, "")
                    EXCEPT !.tenant = t])

update_complaint ==
    \E admin \in BOOLEAN, pk \in ComplaintIds, st \in ComplaintStatuses, nb \in NotesBodies :
        /\ Caller(admin, <<st, nb>>, <<"", <<FALSE, "">>>>)
        /\ Handle(ComplaintReq("update_complaint", admin, "admin1", pk, st, nb[1], nb[2]))

mark_as_resolved ==
    \E pk \in ComplaintIds, by \in {"", "admin1"}, notes \in {"", "fixed"} :
        Handle(ComplaintReq("mark_as_resolved", TRUE, by, pk, "", notes # "", notes))

close == \E pk \in ComplaintIds : Handle(ComplaintReq("close", TRUE, "", pk, "", FALSE, ""))

mark_in_progress ==
    \E pk \in ComplaintIds :
        Handle(ComplaintReq("mark_in_progress", TRUE, "admin1", pk, "", FALSE, ""))

mark_resolved ==
    \E pk \in ComplaintIds :
        Handle(ComplaintReq("mark_resolved", TRUE, "admin1", pk, "", FALSE, ""))

mark_closed ==
    \E pk \in ComplaintIds :
        Handle(ComplaintReq("mark_closed", TRUE, "admin1", pk, "", FALSE, ""))

NextComplaint ==
    \/ create_complaint
    \/ update_complaint
    \/ mark_as_resolved
    \/ close
    \/ mark_in_progress
    \/ mark_resolved
    \/ mark_closed
    \/ Tick

SpecComplaint == InitBill /\ [][NextComplaint]_vars

\* ------------------------------------------------------ users, sequential
UserIds == 1..MaxUsers

UserReq(op, admin, pk, role, has_is_active, is_active) ==
    [Blank EXCEPT !.op = op, !.admin = admin, !.pk = pk, !.role = role,
                  !.has_is_active = has_is_active, !.is_active = is_active]

\* role ("" when the body has none) and is_active (first component: the body
\* has it) of an update_user body
UserBodies == {<<"", FALSE, FALSE>>, <<"user", FALSE, FALSE>>, <<"admin", FALSE, FALSE>>,
               <<"", TRUE, TRUE>>, <<"", TRUE, FALSE>>}

register_user ==
    /\ Cardinality(DOMAIN users) < MaxUsers
    /\ Cardinality(DOMAIN tenants) < NumTenants
    /\ Handle(UserReq("register_user", FALSE, None, "user", FALSE, FALSE))

\* python manage.py createsuperuser
create_superuser ==
    /\ Cardinality(DOMAIN users) < MaxUsers
    /\ Handle(UserReq("create_superuser", TRUE, None, "admin", FALSE, FALSE))

update_user ==
    \E admin \in BOOLEAN, pk \in UserIds, body \in UserBodies :
        /\ Caller(admin, body, <<"", FALSE, FALSE>>)
        /\ Handle(UserReq("update_user", admin, pk, body[1], body[2], body[3]))

delete_user ==
    \E admin \in BOOLEAN, pk \in UserIds :
        Handle(UserReq("delete_user", admin, pk, "", FALSE, FALSE))

\* No user yet, and so no tenant profile; the rooms are free.
InitUsers ==
    /\ rooms = [r \in Rooms |-> [exists |-> TRUE, status |-> "available"]]
    /\ tenants = <<>>
    /\ asg = <<>>
    /\ pay = <<>>
    /\ today = 1
    /\ req = [w \in Workers |-> Idle]
    /\ last = Response(Blank)
    /\ ever_paid = {}
    /\ complaints = <<>>
    /\ users = <<>>

NextUsers ==
    \/ register_user
    \/ create_superuser
    \/ update_user
    \/ delete_user
    \/ delete_tenant

SpecUsers == InitUsers /\ [][NextUsers]_vars

\* ------------------------------------------ rooms and tenants, sequential
CreateRoomReq(admin, r, st) ==
    [NewReq("create_room", admin, None, r, None, None, None, None) EXCEPT !.status = st]

UpdateTenantReq(admin, t, has_is_active, is_active) ==
    [NewReq("update_tenant", admin, t, None, None, None, None, None)
        EXCEPT !.has_is_active = has_is_active, !.is_active = is_active]

\* is_active of an update_tenant body: none, true, false
ActiveBodies == {<<FALSE, FALSE>>, <<TRUE, TRUE>>, <<TRUE, FALSE>>}

create_room ==
    \E admin \in BOOLEAN, r \in Rooms, st \in RoomStatuses :
        /\ ~rooms[r].exists
        /\ Caller(admin, st, "available")
        /\ Handle(CreateRoomReq(admin, r, st))

delete_room ==
    \E admin \in BOOLEAN, r \in Rooms :
        Handle(DeleteRoomReq(admin, r))

update_tenant ==
    \E admin \in BOOLEAN, t \in Tenants, body \in ActiveBodies :
        /\ Caller(admin, body, <<FALSE, FALSE>>)
        /\ Handle(UpdateTenantReq(admin, t, body[1], body[2]))

\* assign_room, unassign_room and change_room with a body that names the
\* current date or leaves the date out (the views fill in the current date).
assign_room_now ==
    /\ RowsLeft
    /\ generate_assignment_id(asg) <= MaxAsgId
    /\ \E admin \in BOOLEAN, t \in Tenants, r \in Rooms, rent \in Rents :
        /\ Caller(admin, r, 1)
        /\ Handle(AssignRoomReq(admin, t, r, today, None, rent))

unassign_room_now ==
    \E admin \in BOOLEAN, t \in Tenants :
        Handle(UnassignRoomReq(admin, t, None))

change_room_now ==
    /\ RowsLeft
    /\ generate_assignment_id(asg) <= MaxAsgId
    /\ \E admin \in BOOLEAN, t \in Tenants, r \in Rooms, rent \in Rents :
        /\ Caller(admin, r, 1)
        /\ Handle(ChangeRoomReq(admin, t, r, None, None, None, rent))

\* The operations on rooms and assignments, at one date.
NextRooms ==
    \/ assign_room_now
    \/ unassign_room_now
    \/ change_room_now
    \/ create_room
    \/ update_room
    \/ delete_room

SpecRooms == Init /\ [][NextRooms]_vars

\* The operations on tenants and assignments, at one date.
NextTenants ==
    \/ assign_room
    \/ unassign_room
    \/ change_room
    \/ update_tenant
    \/ delete_tenant
    \/ delete_user

SpecTenants == Init /\ [][NextTenants]_vars

\* ------------------------------------------- requests served concurrently
\* A worker takes a request and runs its first query block ...
Begin(w, l0) ==
    /\ req[w] = Idle
    /\ LET s == Step(DB, l0) IN
         /\ SetDB(s.db)
         /\ req' = [req EXCEPT ![w] = IF s.l.pc = "done" THEN Idle ELSE s.l]
    /\ UNCHANGED last

\* ... and goes on block by block, other workers in between (autocommit: no
\* transaction spans a handler).
StepReq(w) ==
    /\ req[w] # Idle
    /\ LET s == Step(DB, req[w]) IN
         /\ SetDB(s.db)
         /\ req' = [req EXCEPT ![w] = IF s.l.pc = "done" THEN Idle ELSE s.l]
    /\ UNCHANGED last

\* Requests under way that will insert an assignment row.
Creating == {w \in Workers : req[w].op \in {"assign_room", "change_room"}}

RowsLeftConc ==
    /\ Cardinality(DOMAIN asg) + Cardinality(Creating) < MaxAsgRows
    /\ generate_assignment_id(asg) <= MaxAsgId

BeginAssignRoom(w) ==
    \E t \in Tenants, r \in Rooms, rent \in Rents :
        /\ RowsLeftConc
        /\ Begin(w, AssignRoomReq(TRUE, t, r, today, None, rent))

BeginUnassignRoom(w) == \E t \in Tenants : Begin(w, UnassignRoomReq(TRUE, t, None))

BeginChangeRoom(w) ==
    \E t \in Tenants, r \in Rooms, rent \in Rents :
        /\ RowsLeftConc
        /\ Begin(w, ChangeRoomReq(TRUE, t, r, today, None, None, rent))

BeginDeleteRoom(w) == \E r \in Rooms : Begin(w, DeleteRoomReq(TRUE, r))

NextConc ==
    \/ \E w \in Workers : BeginAssignRoom(w)
    \/ \E w \in Workers : BeginUnassignRoom(w)
    \/ \E w \in Workers : BeginChangeRoom(w)
    \/ \E w \in Workers : BeginDeleteRoom(w)
    \/ \E w \in Workers : StepReq(w)

SpecConc == Init /\ [][NextConc]_vars

\* ------------------------------------------- billing, requests interleaved
PayIdsConc == 1..MaxPayIdConc

\* The interleaved requests bill one and the same month.
RacedMonths == {1}

\* n more payment rows, and those of the requests under way, get ids within the bound.
PayIdsLeftConc(n) == PayIdsLeft(Inserting + n, MaxPayIdConc)

BeginCreatePayment(w) ==
    /\ PayIdsLeftConc(1)
    /\ \E t \in Tenants, m \in RacedMonths, y \in Years :
          Begin(w, CreatePaymentReq(TRUE, t, m, y, 5, "pending", None))

BeginGenerate(w) ==
    /\ PayIdsLeftConc(Cardinality({i \in DOMAIN asg : asg[i].is_current}))
    /\ \E m \in RacedMonths, y \in Years, day \in DueDays, desc \in BOOLEAN :
          Begin(w, GenerateReq(TRUE, m, y, day, desc))

BeginMarkAsPaid(w) ==
    \E pk \in PayIdsConc, body \in MarkBodies :
        /\ body[4] = ""
        /\ Begin(w, MarkAsPaidReq(TRUE, pk, body))

BeginDeletePayment(w) == \E pk \in PayIdsConc : Begin(w, DeletePaymentReq(TRUE, pk))

NextBillConc ==
    \/ \E w \in Workers : BeginCreatePayment(w)
    \/ \E w \in Workers : BeginGenerate(w)
    \/ \E w \in Workers : BeginMarkAsPaid(w)
    \/ \E w \in Workers : BeginDeletePayment(w)
    \/ \E w \in Workers : StepReq(w)

SpecBillConc == InitBill /\ [][NextBillConc]_vars

\* ------------------------------------------------------ tenancy claims
\* C1: each room is referenced by at most one current assignment, also while
\* assign_room / change_room requests interleave.
C1_OneCurrentPerRoom == \A r \in Rooms : Cardinality(CurrentOfRoom(asg, r)) <= 1

\* C2: each tenant is referenced by at most one current assignment, also while
\* assign_room / change_room requests interleave.
C2_OneCurrentPerTenant == \A t \in Tenants : Cardinality(CurrentOfTenant(asg, t)) <= 1

\* C4: change_room is all-or-nothing: when it does not succeed, the assignment
\* it loaded as the tenant's current one is still current afterwards.
C4_ChangeRoomAllOrNothing ==
    (last.op = "change_room" /\ last.res # "ok" /\ last.cur # None)
        => (last.cur \in DOMAIN asg /\ asg[last.cur].is_current)

\* C5: assign_room is rejected, and no assignment row or room row changes,
\* whenever the target room has a current assignment, or the tenant has one, or
\* the room's status is not 'available'.
C5_AssignRejected ==
    [][\A admin \in BOOLEAN, t \in Tenants, r \in Rooms, mi \in Days, rent \in Rents :
      \A le \in LeaseEnds(mi) :
          ( /\ last'.op = "assign_room"
            /\ \/ CurrentOfRoom(asg, r) # {}
               \/ CurrentOfTenant(asg, t) # {}
               \/ rooms[r].status # "available"
            /\ Handle(AssignRoomReq(admin, t, r, mi, le, rent)) )
          => ( /\ last'.res = IF admin THEN "rejected" ELSE "forbidden"
               /\ asg' = asg
               /\ rooms' = rooms )]_vars

\* An assign_room was rejected in a state where no room could be assigned.
C5_Witness ==
    /\ last.op = "assign_room"
    /\ last.res = "rejected"
    /\ \A r \in Rooms : CurrentOfRoom(asg, r) # {} \/ rooms[r].status # "available"
    /\ \E r \in Rooms : CurrentOfRoom(asg, r) = {}

\* C6: assign_room creates the current assignment and sets the room 'occupied'
\* as one step: no state shows the new current assignment with the room still
\* 'available'.
C6_AssignAtomic ==
    \A w \in Workers :
        ~( /\ req[w].op = "assign_room"
           /\ req[w].pc = "occupy"
           /\ req[w].newid \in DOMAIN asg
           /\ asg[req[w].newid].is_current
           /\ rooms[req[w].room].status = "available" )

\* C7: after end_assignment succeeds on a current assignment, the assignment
\* is not current and has the supplied move_out_date (the current date when
\* none is supplied), its room is 'available', and no other assignment and no
\* other room has changed.
C7_EndAssignmentEffect ==
    [][\A admin \in BOOLEAN, t \in Tenants, mo \in Days \cup {None} :
          (last'.op = "unassign_room" /\ last'.res = "ok" /\ Handle(UnassignRoomReq(admin, t, mo)))
          => LET cur == get_current_assignment(asg, t) IN
             /\ cur # None
             /\ DOMAIN asg' = DOMAIN asg
             /\ ~asg'[cur].is_current
             /\ asg'[cur].move_out_date # None
             /\ asg'[cur].move_out_date = IF mo = None THEN today ELSE mo
             /\ rooms'[asg[cur].room].status = "available"
             /\ \A i \in DOMAIN asg \ {cur} : asg'[i] = asg[i]
             /\ \A r \in Rooms \ {asg[cur].room} : rooms'[r] = rooms[r]]_vars

\* An unassign_room has ended an assignment while another one is on file.
C7_Witness ==
    /\ last.op = "unassign_room"
    /\ last.res = "ok"
    /\ last.cur \in DOMAIN asg
    /\ ~asg[last.cur].is_current
    /\ \E i \in DOMAIN asg : asg[i].is_current

\* C8: end_assignment fails only when a supplied move_out_date precedes the
\* assignment's move_in_date, and then the stored assignment is still current
\* and the room unchanged; without a move_out_date the current date is taken
\* and the assignment is ended.
C8_EndFailsOnlyOnEarlierSuppliedDate ==
    [][\A t \in Tenants, mo \in Days \cup {None} :
          ( /\ last'.op = "unassign_room"
            /\ get_current_assignment(asg, t) # None
            /\ Handle(UnassignRoomReq(TRUE, t, mo)) )
          => LET cur == get_current_assignment(asg, t) IN
             /\ last'.res = "error" =>
                   /\ mo # None
                   /\ mo < asg[cur].move_in_date
                   /\ asg' = asg
                   /\ rooms' = rooms
             /\ mo = None =>
                   /\ last'.res = "ok"
                   /\ ~asg'[cur].is_current
                   /\ asg'[cur].move_out_date = today]_vars

\* C9: after end_assignment of a room's current assignment, an assign_room of
\* an active tenant without a current assignment to that room succeeds.
C9_AssignAfterEndSucceeds ==
    [][\A t \in Tenants, r \in Rooms, mi \in Days, rent \in Rents :
      \A le \in LeaseEnds(mi) :
          ( /\ last.op = "unassign_room"
            /\ last.res = "ok"
            /\ last.cur \in DOMAIN asg
            /\ asg[last.cur].room = r
            /\ tenants[t].is_active
            /\ CurrentOfTenant(asg, t) = {}
            /\ ~(le # None /\ le < mi)
            /\ Handle(AssignRoomReq(TRUE, t, r, mi, le, rent)) )
          => ( /\ last'.res = "ok"
               /\ \E i \in CurrentOfRoom(asg', r) : asg'[i].tenant = t )]_vars

\* ------------------------------------------------------ billing claims
\* C3: in every state, also while generate_monthly_payments and create_payment
\* requests interleave, there is at most one payment row per tenant, month and
\* year.
C3_OnePaymentPerPeriod ==
    \A t \in Tenants, m \in Months, y \in Years : Cardinality(PeriodRows(pay, t, m, y)) <= 1

\* A request is about to insert, under an unused id, a payment for a period
\* that another request has billed since this one looked.
C3_Witness ==
    \E w \in Workers :
        /\ req[w].op \in {"create_payment", "generate_monthly_payments"}
        /\ req[w].pc = "pay_insert"
        /\ req[w].newid \notin DOMAIN pay
        /\ PeriodRows(pay,
                      IF req[w].op = "create_payment" THEN req[w].tenant
                      ELSE Head(req[w].queue).tenant,
                      req[w].month, req[w].year) # {}

\* C10: mark_as_paid on a payment that is already paid is rejected, and the
\* payment's status, payment_date, paid_at, paid_by, payment_method and notes
\* stay as they are.
C10_MarkPaidTwiceRejected ==
    [][\A admin \in BOOLEAN, pk \in PayIds, body \in MarkBodies :
          ( /\ last'.op = "mark_as_paid"
            /\ pk \in DOMAIN pay
            /\ pay[pk].status = "paid"
            /\ Handle(MarkAsPaidReq(admin, pk, body)) )
          => ( /\ last'.res = IF admin THEN "rejected" ELSE "forbidden"
               /\ pk \in DOMAIN pay'
               /\ pay'[pk].status = pay[pk].status
               /\ pay'[pk].payment_date = pay[pk].payment_date
               /\ pay'[pk].paid_at = pay[pk].paid_at
               /\ pay'[pk].paid_by = pay[pk].paid_by
               /\ pay'[pk].payment_method = pay[pk].payment_method
               /\ pay'[pk].notes = pay[pk].notes )]_vars

\* A mark_as_paid of another admin, on a later day, was rejected for a payment
\* that a first mark_as_paid had set paid.
C10_Witness ==
    /\ last.op = "mark_as_paid"
    /\ last.res = "rejected"
    /\ last.pk \in DOMAIN pay
    /\ pay[last.pk].status = "paid"
    /\ pay[last.pk].paid_by \notin {"", last.actor}
    /\ pay[last.pk].paid_at < today

\* --------------------------------------------------- payment status claims
\* C11: no operation moves a stored payment from status 'paid' to status
\* 'cancelled'.
C11_PaidNeverCancelled ==
    [][\A p \in DOMAIN pay :
          (pay[p].status = "paid" /\ p \in DOMAIN pay') => pay'[p].status # "cancelled"]_vars

\* C12: delete_payment on a paid payment is rejected and leaves the payment
\* table as it is; a delete_payment that changes the table removes exactly
\* the addressed payment, whose status was 'pending' or 'cancelled'.
C12_DeletePaidRejected ==
    [][\A admin \in BOOLEAN, pk \in PayIds :
          ( /\ last'.op = "delete_payment"
            /\ Handle(DeletePaymentReq(admin, pk)) )
          => ( /\ (pk \in DOMAIN pay /\ pay[pk].status = "paid")
                    => (last'.res = (IF admin THEN "rejected" ELSE "forbidden") /\ pay' = pay)
               /\ pay' # pay
                    => ( /\ pk \in DOMAIN pay
                         /\ pay[pk].status \in {"pending", "cancelled"}
                         /\ pay' = [p \in DOMAIN pay \ {pk} |-> pay[p]] ) )]_vars

\* An admin's delete_payment was rejected for a payment that is paid, next to
\* a payment that is not.
C12_Witness ==
    /\ last.op = "delete_payment"
    /\ last.res = "rejected"
    /\ last.pk \in DOMAIN pay
    /\ pay[last.pk].status = "paid"
    /\ \E p \in DOMAIN pay : pay[p].status = "cancelled"

\* C13: a stored payment that has had status 'paid' does not have status
\* 'pending'.
C13_PaidNeverPendingAgain == \A p \in ever_paid : pay[p].status # "pending"

\* ------------------------------------------------ monthly generation claims
\* C14: a generate_monthly_payments run that directly follows a successful
\* run for the same month and year answers with created_count 0 and with
\* every current assignment skipped, and leaves the payment table as it is.
C14_GenerateIdempotent ==
    [][\A m \in Months, y \in Years, day \in DueDays, desc \in BOOLEAN :
          ( /\ last.op = "generate_monthly_payments"
            /\ last.res = "ok"
            /\ last.month = m /\ last.year = y
            /\ last'.op = "generate_monthly_payments"
            /\ Handle(GenerateReq(TRUE, m, y, day, desc)) )
          => ( /\ last'.res = "ok"
               /\ last'.created = 0
               /\ last'.skipped = Cardinality({i \in DOMAIN asg : asg[i].is_current})
               /\ pay' = pay )]_vars

\* C15: an admin's generate_monthly_payments for a month and year answers with
\* the counts; afterwards every current assignment's tenant has exactly one
\* payment of that period, every new payment is 'pending', belongs to a
\* current assignment and its tenant and has the assignment's monthly_rent as
\* amount, the payments that existed are unchanged, created_count is the
\* number of new payments and created_count + skipped_count is the number of
\* current assignments.
C15_GenerateCoversAssignments ==
    [][\A m \in Months, y \in Years, day \in DueDays, desc \in BOOLEAN :
          ( /\ last'.op = "generate_monthly_payments"
            /\ Handle(GenerateReq(TRUE, m, y, day, desc)) )
          => LET current == {i \in DOMAIN asg : asg[i].is_current}
                 new == DOMAIN pay' \ DOMAIN pay
             IN  /\ last'.res = "ok"
                 /\ \A i \in current :
                        Cardinality(PeriodRows(pay', asg[i].tenant, m, y)) = 1
                 /\ \A p \in new :
                        /\ pay'[p].status = "pending"
                        /\ pay'[p].payment_period_month = m
                        /\ pay'[p].payment_period_year = y
                        /\ pay'[p].assignment \in current
                        /\ pay'[p].tenant = asg[pay'[p].assignment].tenant
                        /\ pay'[p].amount = asg[pay'[p].assignment].monthly_rent
                 /\ \A p \in DOMAIN pay : p \in DOMAIN pay' /\ pay'[p] = pay[p]
                 /\ last'.created = Cardinality(new)
                 /\ last'.created + last'.skipped = Cardinality(current)]_vars

\* Last day of month m of year y, by the Gregorian rule.
C16_LastDay(y, m) ==
    IF m # 2 THEN <<31, 28, 31, 30, 31, 30, 31, 31, 30, 31, 30, 31>>[m]
    ELSE IF y % 400 = 0 \/ (y % 4 = 0 /\ y % 100 # 0) THEN 29 ELSE 28

\* C16: for every month, year and due_day 1..31, every payment that the REST
\* endpoint or the management command creates has as due_date the day due_day
\* of the period's month when the month has that day, else the last day of
\* the month; so both compute the same due_date.
C16_DueDate ==
    [][\A m \in DueMonths, y \in DueYears, day \in AllDueDays :
          ( /\ last'.month = m /\ last'.year = y /\ last'.due_day = day
            /\ \/ Handle(GenerateReq(TRUE, m, y, day, FALSE))
               \/ Handle(CommandReq(m, y, day)) )
          => \A p \in DOMAIN pay' \ DOMAIN pay :
                pay'[p].due_date =
                    <<y, m, IF day <= C16_LastDay(y, m) THEN day ELSE C16_LastDay(y, m)>>]_vars

\* The REST endpoint has billed February of a leap year with a due_day after
\* the 29th: the payments are due on 29 February.
C16_Witness ==
    /\ last.op = "generate_monthly_payments"
    /\ last.res = "ok"
    /\ last.month = 2
    /\ last.year = 2024
    /\ last.due_day = 31
    /\ pay # <<>>
    /\ \A p \in DOMAIN pay : pay[p].due_date = <<2024, 2, 29>>

\* ------------------------------------------------------ complaint claims
\* C17: no operation moves a complaint whose status is 'resolved' or 'closed'
\* to status 'open' or 'in_progress'.
C17_NeverBackwards ==
    [][\A c \in DOMAIN complaints :
          complaints[c].status \in {"resolved", "closed"}
              => complaints'[c].status \notin {"open", "in_progress"}]_vars

\* C18: a complaint whose status is 'resolved' has non-empty resolution_notes,
\* a resolved_at and a resolved_by.
C18_ResolvedHasNotes ==
    \A c \in DOMAIN complaints :
        complaints[c].status = "resolved"
            => ( /\ complaints[c].resolution_notes # ""
                 /\ complaints[c].resolved_at # None
                 /\ complaints[c].resolved_by # "" )

\* C19: a complaint whose status is 'closed' has a resolved_at.
C19_ClosedHasResolvedAt ==
    \A c \in DOMAIN complaints :
        complaints[c].status = "closed" => complaints[c].resolved_at # None

\* ------------------------------------------------------------ user claims
\* C20: every user whose role is 'user' has exactly one TenantProfile, and no
\* user has more than one.
C20_OneProfilePerTenantUser ==
    \A u \in DOMAIN users :
        /\ Cardinality(ProfilesOf(tenants, u)) <= 1
        /\ users[u].role = "user" => Cardinality(ProfilesOf(tenants, u)) = 1

\* ------------------------------------------------- tenancy ledger claims
\* C21: no operation removes a RoomAssignment row: every assignment on file
\* before a step is on file after it.
C21_AssignmentsNeverDeleted == [][\A i \in DOMAIN asg : i \in DOMAIN asg']_vars

\* C26: a room's status is 'occupied' exactly when the room has a current
\* assignment, and no delete_room removes a room that has one.
C26_OccupiedIffCurrent ==
    \A r \in Rooms :
        rooms[r].exists => (rooms[r].status = "occupied" <=> CurrentOfRoom(asg, r) # {})

\* C28: a tenant profile that is not active has no current assignment.
C28_InactiveHasNoRoom ==
    \A t \in DOMAIN tenants :
        ~tenants[t].is_active => CurrentOfTenant(asg, t) = {}

\* ------------------------------------------------------- billing claims
\* C22: generate_monthly_payments is all or none: when it stops inside its
\* loop because a payment was rejected, no payment of that call is stored.
C22_GenerateAllOrNone ==
    [][(/\ last'.op = "generate_monthly_payments"
        /\ last'.res = "error"
        /\ last'.created + last'.skipped < Cardinality({i \in DOMAIN asg : asg[i].is_current}))
       => pay' = pay]_vars

\* C23: every stored payment has a positive amount, and every paid payment
\* has a payment_date that is not after the date it was saved at.
C23_StoredPaymentsValid ==
    \A p \in DOMAIN pay :
        /\ pay[p].amount > 0
        /\ pay[p].status = "paid" => (pay[p].payment_date # None /\ pay[p].payment_date <= today)

\* update_payment has stored a paid payment while an assignment with a
\* non-positive rent is current.
C23_Witness ==
    /\ last.op = "update_payment"
    /\ last.res = "ok"
    /\ last.pk \in DOMAIN pay
    /\ pay[last.pk].status = "paid"
    /\ \E i \in DOMAIN asg : asg[i].is_current /\ asg[i].monthly_rent <= 0

\* ---------------------------------------------------- permission claims
\* The privileged requests a caller who is not an admin may send.
C24_Requests ==
    {AssignRoomReq(FALSE, t, r, today, None, 5) : t \in Tenants, r \in Rooms}
    \cup {UnassignRoomReq(FALSE, t, None) : t \in Tenants}
    \cup {ChangeRoomReq(FALSE, t, r, None, None, None, 5) : t \in Tenants, r \in Rooms}
    \cup {DeleteTenantReq(FALSE, t) : t \in Tenants}
    \cup {CreatePaymentReq(FALSE, t, m, 2025, 5, "pending", None) : t \in Tenants, m \in Months}
    \cup {UpdatePaymentReq(FALSE, pk, body[1], body[2]) : pk \in PayIds, body \in UpdateBodies}
    \cup {DeletePaymentReq(FALSE, pk) : pk \in PayIds}
    \cup {MarkAsPaidReq(FALSE, pk, body) : pk \in PayIds, body \in MarkBodies}
    \cup {GenerateReq(FALSE, m, 2025, 31, FALSE) : m \in Months}
    \cup {CreateRoomReq(FALSE, r, st) : r \in Rooms, st \in RoomStatuses}
    \cup {UpdateRoomReq(FALSE, r, st) : r \in Rooms, st \in RoomStatuses}
    \cup {DeleteRoomReq(FALSE, r) : r \in Rooms}

\* C24: a privileged operation called by a user who is not an admin is
\* answered as forbidden and changes no room, assignment or payment row.
C24_NonAdminForbidden ==
    \A l0 \in C24_Requests :
        LET r == Run(DB, l0) IN
        /\ r.l.res = "forbidden"
        /\ r.db.rooms = rooms
        /\ r.db.asg = asg
        /\ r.db.pay = pay

\* A caller who is not an admin has asked to mark a pending payment as paid.
C24_Witness ==
    /\ last.op = "mark_as_paid"
    /\ last.res = "forbidden"
    /\ last.pk \in DOMAIN pay
    /\ pay[last.pk].status = "pending"

\* --------------------------------------------------- statistics claims
RECURSIVE C25_Revenue(_, _, _)
\* The amounts of the paid payments of period (y, m) among payments 1..n, added up.
C25_Revenue(y, m, n) ==
    IF n = 0 THEN 0
    ELSE C25_Revenue(y, m, n - 1)
         + (IF /\ n \in DOMAIN pay
               /\ pay[n].status = "paid"
               /\ pay[n].payment_period_year = y
               /\ pay[n].payment_period_month = m THEN pay[n].amount ELSE 0)

\* C25: payment_statistics answers an admin with twelve monthly_revenue
\* entries, the twelve calendar months that end with the current one in
\* order, each with the sum of the paid payments of its period.
C25_TwelveMonths ==
    (last.op = "payment_statistics" /\ last.res # "forbidden")
    => /\ last.res = "ok"
       /\ Len(last.stats) = 12
       /\ \A i \in 1..12 :
            /\ last.stats[i].month \in 1..12
            /\ 12 * last.stats[i].year + last.stats[i].month
                 = 12 * last.now[1] + last.now[2] - (12 - i)
            /\ last.stats[i].revenue
                 = C25_Revenue(last.stats[i].year, last.stats[i].month, MaxPayId)

\* The statistics were read on the last day of March with revenue on file.
C25_Witness ==
    /\ last.op = "payment_statistics"
    /\ last.res = "ok"
    /\ last.now = <<2025, 3, 31>>
    /\ \E i \in 1..12 : last.stats[i].revenue > 0

\* C27: a payment that mark_as_paid has marked (paid_at is set) stays on
\* file whatever operation follows.
C27_MarkedPaidStays ==
    [][\A p \in DOMAIN pay : pay[p].paid_at # None => p \in DOMAIN pay']_vars

\* ------------------------------------------------------- identifier claims
\* C29: the id each generator produces next is the id of no row on file,
\* however many rows there are.
C29_FreshIds ==
    /\ generate_assignment_id(asg) \notin DOMAIN asg
    /\ generate_payment_id(pay) \notin DOMAIN pay
    /\ generate_user_id(users) \notin DOMAIN users

\* --------------------------------------------------------- command claims
\* C30: the management command with --dry-run leaves the payment table as it
\* is, and the number it reports as 'would create' is the number of payments
\* the command without --dry-run creates from the same state.
C30_DryRunPredicts ==
    [][(last'.op = "command" /\ last'.dry_run /\ last'.res = "ok")
       => /\ pay' = pay
          /\ last'.created
               = Run(DB, CommandReq(last'.month, last'.year, last'.due_day)).l.created]_vars

====
